---- MODULE Spec2Model ----
(***************************************************************************)
(* Model of the consciousness telemetry reader of dawn-consciousness-gui:  *)
(* the memory segment reader (mmap_reader.rs), the bridge poller           *)
(* (dawn_bridge.rs) and the on-demand commands that share the reader       *)
(* behind one mutex.  The producer of the segment is an external process   *)
(* that writes the header and the slots without any synchronisation.       *)
(***************************************************************************)
EXTENDS Integers, Sequences, FiniteSets, TLC

(* ---- program constants (mmap_reader.rs) ---- *)
HEADER_SIZE == 64
TICK_STATE_SIZE == 8192
MAX_TICKS == 1000
HISTORY_CAPACITY == 120
MIN_HEADER_READ == 20
MIN_RECORD_SIZE == 80

(* ---- bounds of the model ---- *)
MaxTick == 1
MaxSlots == 1
MaxHeaderWrites == 2
MaxClock == 1

\* header tick values the producer may publish: small ticks and the wrap tick
TickValues == (0 .. MaxTick) \cup {MAX_TICKS}

\* lengths of the files an attach may find: too small, header only, a
\* partial first slot, and whole slots
FileLens ==
  {3, HEADER_SIZE - 1, HEADER_SIZE, HEADER_SIZE + TICK_STATE_SIZE - 1,
   HEADER_SIZE + MaxSlots * TICK_STATE_SIZE}

\* the threads that call ConsciousnessReader::read_consciousness_state
Poller == "start_dawn_bridge"
Commands == {"read_consciousness_state", "create_snapshot",
             "get_consciousness_flash_triggers"}
Callers == {Poller} \cup Commands

NoMap == [some |-> FALSE, len |-> 0]
NoAttempt == [result |-> "none", resolved |-> 0, io |-> "ok", len |-> 0,
              magicOk |-> FALSE, version |-> 0, bytesRead |-> 0,
              before |-> NoMap]
NoProbe == [kind |-> "none", in |-> <<>>, out |-> <<>>, done |-> FALSE]
NoMonitor == [outcome |-> "none", samples |-> 0, time_span |-> 0,
              thought_rate_hz |-> [wrapped |-> FALSE, num |-> 0, den |-> 1],
              neural_activity |-> [num |-> 0, den |-> 1]]
\* threads one TickMonitor may spawn, iterations each may run
MaxStarts == 2
MaxTickCounter == 2

\* TickMonitorState::default(); the time fields are left out
DefaultTickMonitorState ==
  [current_tick |-> [some |-> FALSE, tick_id |-> 0], total_ticks |-> 0,
   monitoring_active |-> FALSE, connection_status |-> "Disconnected"]

\* TickMonitor::new(); monitoring_thread 0 is None. threads are the threads
\* spawned so far, call and joining the stop_monitoring call in progress, op
\* the last call made, connects the connect calls made (counted up to 2),
\* ever_started whether a start_monitoring succeeded, stopped whether
\* stop_monitoring has returned since the last start, events the tick-update
\* events emitted
NewTickMonitor ==
  [state |-> DefaultTickMonitorState, monitoring_thread |-> 0,
   should_stop |-> FALSE, connected |-> FALSE,
   threads |-> [i \in 1 .. MaxStarts |-> [pc |-> "unborn", tick_counter |-> 0]],
   call |-> "none", joining |-> 0, op |-> "new", connects |-> 0,
   ever_started |-> FALSE, stopped |-> FALSE, events |-> 0]

\* the stream tasks the bound allows for
MaxStreamTasks == 2

\* metrics-update messages followed
MaxUpdates == 1

\* AppState.websocket_connected after AppState::default(), the
\* connect_to_metrics_stream tasks spawned so far (none), whether setup has
\* spawned its task, the subscribe_to_metrics calls between their test of
\* the flag and their spawn, the result of the last subscribe_to_metrics and
\* the metrics-update events emitted
NewMetrics ==
  [websocket_connected |-> FALSE,
   tasks |-> [t \in 1 .. MaxStreamTasks |-> "unborn"],
   setup_done |-> FALSE, pending |-> 0, op |-> "none", updates |-> 0]

\* the Python processes the bound lets start_python_process spawn
MaxPids == 2

\* AppState.python_processes after AppState::new(), reduced to one script
\* name: its PID, 0 when the map has no entry. alive are the PIDs of running
\* processes, next_pid the PID the next spawn gets, check and stats the
\* check_python_process_status and get_process_stats calls in progress with
\* the PID they read, removed what the last removal by one of them read and
\* what it removed, op the result of the last command
NewTracker ==
  [python_processes |-> 0, alive |-> {}, next_pid |-> 1,
   check |-> [pc |-> "idle", pid |-> 0],
   stats |-> [pc |-> "idle", pid |-> 0],
   removed |-> [by |-> "none", read |-> 0, entry |-> 0],
   op |-> "none"]

\* const MAX_RETRIES: u32 = 10 of listen_for_thoughts
MAX_RETRIES == 10

\* connections the chat socket accepts, and thoughts followed
MaxConnections == 2
MaxThoughts == 1

\* listen_for_thoughts at its first connect_async: retry_count = 0.
\* failed_run counts the connect attempts that failed in a row, connections
\* the connections established, thoughts the messages received
NewListener ==
  [pc |-> "connecting", retry_count |-> 0, failed_run |-> 0,
   connections |-> 0, thoughts |-> 0]

NoCall == [outcome |-> "none", hdr |-> 0, index |-> 0, offset |-> 0,
           len |-> 0, lo |-> 0, hi |-> 0]

VARIABLES
  header,                   \* segment bytes 16..19: latest tick
  slots,                    \* slot index -> tick_number embedded in the slot
  epoch,                    \* number of header publications so far
  now,                      \* SystemTime::now()
  memory_map,               \* ConsciousnessReader.memory_map
  last_observed_tick,       \* ConsciousnessReader.last_observed_tick
  thought_history,          \* ConsciousnessReader.thought_history
  consciousness_start_time, \* ConsciousnessReader.consciousness_start_time
  mutex,                    \* holder of the Mutex<ConsciousnessReader>
  pc,                       \* position of each caller
  latest_tick,              \* local latest_tick of each caller (0 outside a call)
  seen_epoch,               \* publication each caller read its header from
  last_tick,                \* local last_tick of the bridge poller
  emitted,                  \* tick_update events published so far
  lastCall,                 \* the last completed read_consciousness_state
  returned,                 \* calls that returned a record, in order
  appended,                 \* publications appended to the history, in order
  attempt,                  \* the last connect_to_consciousness in detail
  probe,                    \* the last evaluation of a pure function
  monitor,                  \* the last get_consciousness_monitor result
  stop_requested,           \* the application asked the poller to stop
  tick_monitor,             \* a TickMonitor and the threads it spawned
  metrics,                  \* dawn-desktop: the metrics stream and its flag
  tracker,                  \* dawn-desktop: the Python process tracker
  listener                  \* dawn-desktop: listen_for_thoughts

vars == <<header, slots, epoch, now, memory_map, last_observed_tick,
          thought_history, consciousness_start_time, mutex, pc, latest_tick,
          seen_epoch, last_tick, emitted, lastCall, returned, appended,
          attempt, probe, monitor, stop_requested, tick_monitor, metrics,
          tracker, listener>>

segment == <<header, slots, epoch>>
reader == <<memory_map, last_observed_tick, thought_history,
            consciousness_start_time>>
ghost == <<lastCall, returned, appended>>
desktop == <<metrics, tracker, listener>>
extra == <<stop_requested, tick_monitor, desktop>>
aux == <<attempt, probe, monitor, extra>>

(* ---- pure helpers ---- *)

\* faulty variant: a ring of 1024 slots
ThoughtIndex_Ring1024(t) == t % 1024

\* thought_index = (latest_tick as usize) % MAX_TICKS
ThoughtIndex(t) == t % MAX_TICKS

\* faulty variant: the header is not skipped
MemoryOffset_NoHeader(t) == (t % MAX_TICKS) * TICK_STATE_SIZE

\* memory_offset = HEADER_SIZE + thought_index * TICK_STATE_SIZE
MemoryOffset(t) == HEADER_SIZE + ThoughtIndex(t) * TICK_STATE_SIZE

\* faulty variant: only the start of the slot is checked
OutOfBounds_StartOnly(offset, len) == offset > len

\* memory_offset + TICK_STATE_SIZE > memory.len()
OutOfBounds(offset, len) == offset + TICK_STATE_SIZE > len

\* faulty variant: a reader that has observed nothing takes tick 0 as new
NoNewThought_ZeroIsNew(latest, last) == latest = last /\ latest # 0

\* if latest_tick == self.last_observed_tick { return None; }
NoNewThought(latest, last) == latest = last

\* faulty variant: the observed tick is not stored
NextObservedTick_Stale(latest, last) == last

\* self.last_observed_tick = latest_tick
NextObservedTick(latest, last) == latest

\* faulty variant: the entry just pushed is dropped instead of the oldest
PushHistory_DropNewest(h, entry) ==
  LET pushed == Append(h, entry)
  IN IF Len(pushed) > HISTORY_CAPACITY
     THEN SubSeq(pushed, 1, HISTORY_CAPACITY)
     ELSE pushed

\* push, then remove(0) when more than 120 entries are held
PushHistory(h, entry) ==
  LET pushed == Append(h, entry)
  IN IF Len(pushed) > HISTORY_CAPACITY THEN Tail(pushed) ELSE pushed

\* decode_consciousness_state: None for a slice shorter than 80 bytes,
\* otherwise a record whose tick_number is bytes 0..3 of the slice
DecodeConsciousnessState(sliceLen, embedded) ==
  IF sliceLen < MIN_RECORD_SIZE
  THEN [some |-> FALSE, tick_number |-> 0]
  ELSE [some |-> TRUE, tick_number |-> embedded]

\* map_consciousness_to_dawn_state: the event carries the record's tick_number
MapConsciousnessToDawnState(rec) == rec.tick_number

\* if consciousness.tick_number != last_tick
BridgeEmits(tick_number, last) == tick_number # last

\* faulty variant: the magic is compared before the length is checked
ValidateConsciousnessMemory_MagicFirst(len, magicOk) ==
  IF ~magicOk THEN "BadMagic"
  ELSE IF len < HEADER_SIZE THEN "TooSmall"
  ELSE "Ok"

\* validate_consciousness_memory
ValidateConsciousnessMemory(len, magicOk) ==
  IF len < HEADER_SIZE THEN "TooSmall"
  ELSE IF ~magicOk THEN "BadMagic"
  ELSE "Ok"

\* faulty variant: the reader is entered without waiting for the mutex
CanLock_NoWait(m) == TRUE

\* state.lock(): the mutex is granted only when nobody holds it
CanLock(m) == m = "free"

\* the slots of the ring that lie inside the longest segment
SlotIndexes == {ThoughtIndex(t) : t \in TickValues} \cap (0 .. MaxSlots - 1)

(* ---- initial state: ConsciousnessReader::new(), a fresh segment ---- *)
InitProgram ==
  /\ header = 0
  /\ slots = [i \in SlotIndexes |-> 0]
  /\ epoch = 0
  /\ now = 0
  /\ memory_map = NoMap
  /\ last_observed_tick = 0
  /\ thought_history = <<>>
  /\ consciousness_start_time = 0
  /\ mutex = "free"
  /\ pc = [c \in Callers |-> "idle"]
  /\ latest_tick = [c \in Callers |-> 0]
  /\ seen_epoch = [c \in Callers |-> 0]
  /\ last_tick = 0
  /\ emitted = <<>>
  /\ lastCall = NoCall
  /\ returned = <<>>
  /\ appended = <<>>
  /\ attempt = NoAttempt
  /\ monitor = NoMonitor
  /\ stop_requested = FALSE
  /\ tick_monitor = NewTickMonitor
  /\ metrics = NewMetrics
  /\ tracker = NewTracker
  /\ listener = NewListener

Init ==
  /\ InitProgram
  /\ probe = NoProbe

(* ---- the external producer ---- *)

\* the producer stores a new latest tick in the header
ProducerWriteHeader ==
  /\ epoch < MaxHeaderWrites
  /\ \E t \in TickValues \ {header} :
       /\ header' = t
       /\ epoch' = epoch + 1
  /\ UNCHANGED <<aux, slots, now, reader, mutex, pc, latest_tick, seen_epoch,
                 last_tick, emitted, ghost>>

\* the producer stores in slot i the record of a tick that maps to slot i
ProducerWriteSlot ==
  /\ \E t \in TickValues :
       /\ ThoughtIndex(t) \in SlotIndexes
       /\ slots[ThoughtIndex(t)] # t
       /\ slots' = [slots EXCEPT ![ThoughtIndex(t)] = t]
  /\ UNCHANGED <<aux, header, epoch, now, reader, mutex, pc, latest_tick,
                 seen_epoch, last_tick, emitted, ghost>>

\* time passes
ClockTick ==
  /\ now < MaxClock
  /\ now' = now + 1
  /\ UNCHANGED <<aux, segment, reader, mutex, pc, latest_tick, seen_epoch,
                 last_tick, emitted, ghost>>

\* faulty variant: the uptime origin is set before the attach is known to
\* have succeeded
ConnectToConsciousness_RestartsUptime ==
  /\ CanLock(mutex)
  /\ \E found \in BOOLEAN, len \in FileLens, magicOk \in BOOLEAN :
       LET result == IF ~found THEN "NotFound"
                     ELSE ValidateConsciousnessMemory(len, magicOk)
       IN /\ memory_map' = IF result = "Ok" THEN [some |-> TRUE, len |-> len]
                           ELSE memory_map
          /\ consciousness_start_time' = now
  /\ UNCHANGED <<aux, segment, now, last_observed_tick, thought_history, mutex,
                 pc, latest_tick, seen_epoch, last_tick, emitted, ghost>>

(* ---- connect_to_consciousness, under the mutex ---- *)
ConnectToConsciousness ==
  /\ CanLock(mutex)
  /\ \E found \in BOOLEAN, len \in FileLens, magicOk \in BOOLEAN :
       LET result == IF ~found THEN "NotFound"
                     ELSE ValidateConsciousnessMemory(len, magicOk)
       IN IF result = "Ok"
          THEN /\ memory_map' = [some |-> TRUE, len |-> len]
               /\ consciousness_start_time' = now
          ELSE UNCHANGED <<memory_map, consciousness_start_time>>
  /\ UNCHANGED <<aux, segment, now, last_observed_tick, thought_history, mutex,
                 pc, latest_tick, seen_epoch, last_tick, emitted, ghost>>

(* ---- read_consciousness_state, called with the mutex held ---- *)

\* the call is over: what it read and how it ended
Completed(outcome, hdr, offset, len, lo, hi) ==
  lastCall' = [outcome |-> outcome, hdr |-> hdr, index |-> ThoughtIndex(hdr),
               offset |-> offset, len |-> len, lo |-> lo, hi |-> hi]

\* faulty variant: the header is read whether or not a segment is attached
CanReadHeader_Always(map) == TRUE

\* lines 150-155: as_ref()? and the length check before the header read
CanReadHeader(map) == map.some /\ map.len >= MIN_HEADER_READ

\* lines 150-164: lock, as_ref()?, length check, header read, comparison
ReadBegin(c) ==
  /\ pc[c] = "idle"
  /\ CanLock(mutex)
  /\ IF ~CanReadHeader(memory_map)
     THEN /\ Completed(IF memory_map.some THEN "short" ELSE "unattached",
                       0, 0, memory_map.len, 0, 0)
          /\ UNCHANGED <<mutex, pc, latest_tick, seen_epoch>>
     ELSE IF NoNewThought(header, last_observed_tick)
     THEN /\ Completed("same", header, 0, memory_map.len, 16, 20)
          /\ UNCHANGED <<mutex, pc, latest_tick, seen_epoch>>
     ELSE /\ mutex' = c
          /\ pc' = [pc EXCEPT ![c] = "body"]
          /\ latest_tick' = [latest_tick EXCEPT ![c] = header]
          /\ seen_epoch' = [seen_epoch EXCEPT ![c] = epoch]
          /\ UNCHANGED lastCall
  /\ UNCHANGED <<aux, segment, now, reader, last_tick, emitted, returned,
                 appended>>

\* bytes 0..3 of slot i; the slots the producer never wrote hold zeroes
SlotTick(i) == IF i \in DOMAIN slots THEN slots[i] ELSE 0

\* faulty variant: the slice handed to the decoder is HEADER_SIZE bytes long
ReadRecord_HeaderSlice(c) ==
  LET latest == latest_tick[c]
      offset == MemoryOffset(latest)
  IN IF OutOfBounds(offset, memory_map.len)
     THEN [some |-> FALSE, tick_number |-> 0]
     ELSE DecodeConsciousnessState(HEADER_SIZE,
                                   SlotTick(ThoughtIndex(latest)))

\* lines 176-197: the record this call decodes from the slot, if any
ReadRecord(c) ==
  LET latest == latest_tick[c]
      offset == MemoryOffset(latest)
  IN IF OutOfBounds(offset, memory_map.len)
     THEN [some |-> FALSE, tick_number |-> 0]
     ELSE DecodeConsciousnessState(TICK_STATE_SIZE,
                                   SlotTick(ThoughtIndex(latest)))

\* lines 166-197: history, last_observed_tick, offset, bounds check, decode
ReadFinish(c) ==
  LET latest == latest_tick[c]
      len == memory_map.len
      offset == MemoryOffset(latest)
      rec == ReadRecord(c)
  IN /\ pc[c] = "body"
     /\ thought_history' = PushHistory(thought_history, <<latest, now>>)
     /\ last_observed_tick' = NextObservedTick(latest, last_observed_tick)
     /\ appended' = Append(appended, seen_epoch[c])
     /\ IF OutOfBounds(offset, len)
        THEN /\ Completed("oob", latest, offset, len, 16, 20)
             /\ UNCHANGED returned
        ELSE IF ~rec.some
        THEN /\ Completed("undecoded", latest, offset, len, offset,
                          offset + TICK_STATE_SIZE)
             /\ UNCHANGED returned
        ELSE /\ Completed("record", latest, offset, len, offset,
                          offset + TICK_STATE_SIZE)
             /\ returned' = Append(returned, [poller |-> c = Poller,
                                              epoch |-> seen_epoch[c]])
     /\ mutex' = "free"
     /\ pc' = [pc EXCEPT ![c] = "idle"]
     /\ latest_tick' = [latest_tick EXCEPT ![c] = 0]
     /\ seen_epoch' = [seen_epoch EXCEPT ![c] = 0]
     /\ UNCHANGED <<aux, segment, now, memory_map, consciousness_start_time>>

(* ---- start_dawn_bridge: one iteration of the polling loop ---- *)
BridgePollBegin ==
  /\ ReadBegin(Poller)

BridgePollFinish ==
  /\ ReadFinish(Poller)
  /\ LET rec == ReadRecord(Poller)
     IN IF rec.some /\ BridgeEmits(rec.tick_number, last_tick)
        THEN /\ last_tick' = rec.tick_number
             /\ emitted' = Append(emitted, MapConsciousnessToDawnState(rec))
        ELSE UNCHANGED <<last_tick, emitted>>

(* ---- the on-demand commands that read the state ---- *)
CommandBegin(c) ==
  /\ ReadBegin(c)

CommandFinish(c) ==
  /\ ReadFinish(c)
  /\ UNCHANGED <<last_tick, emitted>>

\* the clock stands still here: no property checked under Spec reads a
\* timestamp; SpecAttach, SpecMonitor and SpecBridge let it advance
Next ==
  \/ ProducerWriteHeader
  \/ ProducerWriteSlot
  \/ ConnectToConsciousness
  \/ BridgePollBegin
  \/ BridgePollFinish
  \/ \E c \in Commands : CommandBegin(c)
  \/ \E c \in Commands : CommandFinish(c)

Spec == Init /\ [][Next]_vars

(* ======================= properties ======================= *)

Idle == \A c \in Callers : pc[c] = "idle"

\* outcomes of a call that read the header of the segment
HeaderRead == {"same", "oob", "undecoded", "record"}

\* the call of caller c ends in this step with the given outcome
Ends(c, outcome) ==
  /\ pc[c] = "body"
  /\ pc'[c] = "idle"
  /\ lastCall'.outcome = outcome

PollerRecords == {i \in 1 .. Len(returned) : returned[i].poller}

\* C1: when the header tick is the one the previous call read, the next call
\* returns no record (it never reaches the body), and an event is emitted
\* only by a call that returned a record.
C1_SameTickNoRecord ==
  /\ [][(Idle /\ lastCall.outcome \in HeaderRead /\ lastCall.hdr = header)
          => (\A c \in Callers : pc'[c] = "idle")]_vars
  /\ [][emitted' # emitted => Ends(Poller, "record")]_vars

\* C1 witness: a tick was consumed and emitted, and the call after it found
\* the same header tick and returned nothing
C1_Witness ==
  /\ lastCall.outcome = "same"
  /\ lastCall.hdr # 0
  /\ Len(emitted) >= 1
  /\ Idle

\* C2: every newly observed in-bounds tick, whoever observed it, has exactly
\* one event published by the poller once no call is pending.
C2_OneEventPerObservedTick ==
  (Idle /\ (memory_map.some => header = last_observed_tick))
    => Len(emitted) = Len(returned)

\* C3: every record returned to the poller is emitted, whatever tick number
\* is embedded in it.
C3_EmitEveryPolledRecord ==
  Len(emitted) = Cardinality(PollerRecords)

\* C4: the emitted tick numbers are non-decreasing and none is emitted twice.
C4_EmittedTicksIncrease ==
  \A i, j \in 1 .. Len(emitted) : i < j => emitted[i] < emitted[j]

\* C5: last_observed_tick never decreases.
C5_LastObservedForward ==
  [][last_observed_tick' >= last_observed_tick]_vars

\* C6: a call rejected as out of bounds leaves last_observed_tick and the
\* history unchanged.
C6_OutOfBoundsKeepsBookkeeping ==
  [][(\E c \in Callers : Ends(c, "oob"))
       => /\ last_observed_tick' = last_observed_tick
          /\ thought_history' = thought_history]_vars

\* C7: a call reads bytes only inside the mapped segment: a slot is read only
\* when offset + 8192 <= length, a rejected call read the header only.
C7_ReadsInsideSegment ==
  /\ lastCall.hi <= lastCall.len
  /\ lastCall.outcome \in {"record", "undecoded"}
       => /\ lastCall.offset + 8192 <= lastCall.len
          /\ lastCall.lo = lastCall.offset
          /\ lastCall.hi = lastCall.offset + 8192
  /\ lastCall.outcome = "oob"
       => /\ lastCall.offset + 8192 > lastCall.len
          /\ lastCall.hi <= 20

\* C7 witness: after a record was decoded and emitted, a later call was
\* rejected because its slot ends past the segment
C7_Witness ==
  /\ lastCall.outcome = "oob"
  /\ Len(emitted) >= 1
  /\ lastCall.offset < lastCall.len

\* C8 as stated: in a validated segment the ring offset of every tick number
\* lies within the segment.
C8_OffsetWithinSegment ==
  memory_map.some
    => \A t \in TickValues : MemoryOffset(t) < memory_map.len

\* C8 amended: the ring offset lies past the header and at most at slot 999;
\* it lies within the segment for every record that is returned, and may lie
\* at or past the end of a validated segment otherwise.
C8_OffsetPastHeader ==
  lastCall.outcome \in {"oob", "undecoded", "record"}
    => /\ lastCall.offset >= 64
       /\ lastCall.offset <= 64 + 999 * 8192
       /\ lastCall.len >= 64
       /\ lastCall.outcome = "record" => lastCall.offset < lastCall.len

\* C8 witness: a validated segment and a tick whose offset is at its end
C8_Witness ==
  /\ lastCall.outcome = "oob"
  /\ lastCall.len = 64
  /\ lastCall.offset >= lastCall.len

\* C9: index = T mod 1000 and offset = 64 + index * 8192, so the index has
\* period 1000 and tick 1000 shares slot 0 at offset 64 with tick 0.
C9_CircularAddressing ==
  /\ \A t \in TickValues : ThoughtIndex(t + 1000) = ThoughtIndex(t)
  /\ ThoughtIndex(1000) = 0
  /\ ThoughtIndex(0) = 0
  /\ MemoryOffset(1000) = 64
  /\ MemoryOffset(0) = 64
  /\ lastCall.outcome \in {"oob", "undecoded", "record"}
       => /\ lastCall.index \in 0 .. 999
          /\ (lastCall.hdr - lastCall.index) % 1000 = 0
          /\ lastCall.offset = 64 + lastCall.index * 8192

\* C9 witness: tick 1000 was read from slot 0 at offset 64
C9_Witness ==
  /\ lastCall.outcome = "record"
  /\ lastCall.hdr = 1000
  /\ lastCall.offset = 64

\* C10: at most one caller is inside the reader, and a header publication is
\* returned as a record at most once and appended to the history at most once.
C10_AtMostOncePerPublication ==
  /\ Cardinality({c \in Callers : pc[c] # "idle"}) <= 1
  /\ \A i, j \in 1 .. Len(returned) :
       i # j => returned[i].epoch # returned[j].epoch
  /\ \A i, j \in 1 .. Len(appended) : i # j => appended[i] # appended[j]

\* C10 witness: the poller got the record of one publication, and a command
\* holds the mutex in the body for the next one while the poller is kept out
C10_Witness ==
  /\ Len(returned) >= 1
  /\ returned[1].poller
  /\ \E c \in Commands : pc[c] = "body" /\ mutex = c /\ seen_epoch[c] = epoch
  /\ pc[Poller] = "idle"

(* ============ connect_to_consciousness in detail ============ *)

\* the candidate locations of locate_consciousness_memory, in its order:
\* the explicit argument, the five fixed paths, DAWN_CONSCIOUSNESS_PATH
CANDIDATE_COUNT == 7
ExplicitCandidate == 1
EnvCandidate == CANDIDATE_COUNT
FallbackCandidates == 2 .. CANDIDATE_COUNT - 1

\* what a candidate may be: an empty string, a path that does not exist, a
\* path that exists; the fixed paths are never empty
CandidateVectors ==
  {c \in [1 .. CANDIDATE_COUNT -> {"empty", "missing", "exists"}] :
     \A i \in FallbackCandidates : c[i] # "empty"}

\* File::open and MmapOptions::map of the resolved path
IoOutcomes == {"ok", "open_failed", "map_failed"}

\* !location.is_empty() && Path::new(location).exists()
CandidateUsable(c) == c # "empty" /\ c = "exists"

RECURSIVE LocateFrom(_, _)
\* the for loop of locate_consciousness_memory, from candidate i on
LocateFrom(cands, i) ==
  IF i > Len(cands) THEN 0
  ELSE IF CandidateUsable(cands[i]) THEN i
  ELSE LocateFrom(cands, i + 1)

\* faulty variant: the environment override is tried first
LocateConsciousnessMemory_EnvFirst(cands) ==
  IF CandidateUsable(cands[Len(cands)]) THEN Len(cands)
  ELSE LocateFrom(cands, 1)

\* locate_consciousness_memory: the first usable candidate, 0 for Err
LocateConsciousnessMemory(cands) == LocateFrom(cands, 1)

\* the number of leading bytes of the mapping that
\* validate_consciousness_memory reads: none, the magic, magic and version
ValidateBytesRead(len, magicOk) ==
  IF ValidateConsciousnessMemory(len, magicOk) = "TooSmall" THEN 0
  ELSE IF ValidateConsciousnessMemory(len, magicOk) = "BadMagic" THEN 4
  ELSE 8

\* faulty variant: the mapping is accepted without validation
ConnectResult_Unvalidated(resolved, io, len, magicOk) ==
  IF resolved = 0 THEN "NotFound"
  ELSE IF io = "open_failed" THEN "OpenFailed"
  ELSE IF io = "map_failed" THEN "MapFailed"
  ELSE "Ok"

\* the result of connect_to_consciousness: each ? returns the first error
ConnectResult(resolved, io, len, magicOk) ==
  IF resolved = 0 THEN "NotFound"
  ELSE IF io = "open_failed" THEN "OpenFailed"
  ELSE IF io = "map_failed" THEN "MapFailed"
  ELSE ValidateConsciousnessMemory(len, magicOk)

\* faulty variant: a failed attach drops the mapping the reader had
MapAfterConnect_Detaches(result, before, len) ==
  IF result = "Ok" THEN [some |-> TRUE, len |-> len] ELSE NoMap

\* lines 90-92 are reached only when nothing failed before them
MapAfterConnect(result, before, len) ==
  IF result = "Ok" THEN [some |-> TRUE, len |-> len] ELSE before

\* connect_to_consciousness with everything it looked at; resolved is what
\* locate_consciousness_memory returned for the candidates of this call
ConnectAttempt ==
  /\ CanLock(mutex)
  /\ \E resolved \in 0 .. CANDIDATE_COUNT, io \in IoOutcomes,
        len \in FileLens, magicOk \in BOOLEAN, version \in 0 .. 1 :
       LET result == ConnectResult(resolved, io, len, magicOk)
           mapped == resolved # 0 /\ io = "ok"
       IN /\ resolved = 0 => io = "ok"
          /\ ~mapped => (len = HEADER_SIZE /\ ~magicOk /\ version = 0)
          /\ attempt' =
               [result |-> result, resolved |-> resolved, io |-> io,
                len |-> IF mapped THEN len ELSE 0,
                magicOk |-> magicOk, version |-> version,
                bytesRead |-> IF mapped THEN ValidateBytesRead(len, magicOk)
                              ELSE 0,
                before |-> memory_map]
          /\ memory_map' = MapAfterConnect(result, memory_map, len)
          /\ consciousness_start_time' =
               IF result = "Ok" THEN now ELSE consciousness_start_time
  /\ UNCHANGED <<segment, now, last_observed_tick, thought_history, mutex,
                 pc, latest_tick, seen_epoch, last_tick, emitted, ghost,
                 probe, monitor, extra>>

NextAttach ==
  \/ ConnectAttempt
  \/ ClockTick

SpecAttach == Init /\ [][NextAttach]_vars

\* the reader after new(), or after an attach to a segment of HEADER_SIZE
\* bytes whose header tick t the bridge has polled once (the slot of t lies
\* beyond such a segment)
InitReattach ==
  \E t \in 0 .. MaxTick :
    IF t = 0 THEN Init
    ELSE /\ header = t
         /\ slots = [i \in SlotIndexes |-> 0]
         /\ epoch = 1
         /\ now = 0
         /\ memory_map = [some |-> TRUE, len |-> HEADER_SIZE]
         /\ last_observed_tick = t
         /\ thought_history = <<<<t, 0>>>>
         /\ consciousness_start_time = 0
         /\ mutex = "free"
         /\ pc = [c \in Callers |-> "idle"]
         /\ latest_tick = [c \in Callers |-> 0]
         /\ seen_epoch = [c \in Callers |-> 0]
         /\ last_tick = 0
         /\ emitted = <<>>
         /\ lastCall = [outcome |-> "oob", hdr |-> t, index |-> ThoughtIndex(t),
                        offset |-> MemoryOffset(t), len |-> HEADER_SIZE,
                        lo |-> 16, hi |-> 20]
         /\ returned = <<>>
         /\ appended = <<1>>
         /\ attempt = NoAttempt
         /\ probe = NoProbe
         /\ monitor = NoMonitor
         /\ stop_requested = FALSE
         /\ tick_monitor = NewTickMonitor
         /\ metrics = NewMetrics
         /\ tracker = NewTracker
         /\ listener = NewListener

\* attaches to a reader that may have polled before
SpecReattach == InitReattach /\ [][NextAttach]_vars

\* C11: a mapped segment shorter than 64 bytes, whatever it holds, makes the
\* attach fail with the too-small error before any byte of it is read.
C11_ShortSegmentTooSmall ==
  (attempt.resolved # 0 /\ attempt.io = "ok" /\ attempt.len < 64)
    => /\ attempt.result = "TooSmall"
       /\ attempt.bytesRead = 0
       /\ memory_map = attempt.before

\* C11 witness: a 63-byte segment that starts with the magic was rejected
C11_Witness ==
  /\ attempt.result = "TooSmall"
  /\ attempt.len = 63
  /\ attempt.magicOk

\* C12: a segment of at least 64 bytes without the magic makes the attach
\* fail with the bad-magic error whatever else it holds, and the reader's
\* mapping stays what it was.
C12_WrongMagicRejected ==
  (attempt.resolved # 0 /\ attempt.io = "ok" /\ attempt.len >= 64
     /\ ~attempt.magicOk)
    => /\ attempt.result = "BadMagic"
       /\ attempt.bytesRead <= attempt.len
       /\ memory_map = attempt.before

\* C12 witness: a whole-slot segment with version 1 and a wrong magic was
\* rejected by a reader that had never been connected
C12_Witness ==
  /\ attempt.result = "BadMagic"
  /\ attempt.len > 64
  /\ attempt.version = 1
  /\ ~memory_map.some

(* ============ the poller and a request to stop ============ *)

\* the application wants the poller to stop; start_dawn_bridge takes no
\* flag or channel, so the request reaches nothing the loop reads
RequestStop ==
  /\ ~stop_requested
  /\ stop_requested' = TRUE
  /\ UNCHANGED <<segment, now, reader, mutex, pc, latest_tick, seen_epoch,
                 last_tick, emitted, ghost, attempt, probe, monitor,
                 tick_monitor, desktop>>

NextBridge ==
  \/ ProducerWriteHeader
  \/ ClockTick
  \/ ConnectToConsciousness
  \/ BridgePollBegin
  \/ BridgePollFinish
  \/ RequestStop

\* the poller thread is scheduled again and again: sleep(16 ms), then poll
SpecBridge ==
  /\ Init
  /\ [][NextBridge]_vars
  /\ WF_vars(BridgePollBegin \/ BridgePollFinish)

(* ============ a long run of observations ============ *)

\* header publications in a run that fills the history window and goes on
MaxObservations == 122

\* the producer publishes tick header + 1 once the reader has observed the
\* tick before it (the poller runs at 60 Hz, the producer far slower)
ProducerAdvanceHeader ==
  /\ epoch < MaxObservations
  /\ header = last_observed_tick
  /\ header' = header + 1
  /\ epoch' = epoch + 1
  /\ UNCHANGED <<aux, slots, now, reader, mutex, pc, latest_tick, seen_epoch,
                 last_tick, emitted, ghost>>

NextHistory ==
  \/ ProducerAdvanceHeader
  \/ ConnectToConsciousness
  \/ BridgePollBegin
  \/ BridgePollFinish

SpecHistory == Init /\ [][NextHistory]_vars

(* ============ get_consciousness_monitor ============ *)

\* last.1.duration_since(first.1).unwrap_or_default(): 0 when the last
\* observation time is not later than the first
TimeSpan(last_time, first_time) ==
  IF last_time >= first_time THEN last_time - first_time ELSE 0

\* last.0 - first.0 on u32: with overflow checks (debug profile) a smaller
\* last tick panics, without them (release profile) the difference wraps to
\* 2^32 - num
ThoughtCount(last_tick_number, first_tick_number, overflow_checks) ==
  IF last_tick_number >= first_tick_number
  THEN [panic |-> FALSE, wrapped |-> FALSE,
        num |-> last_tick_number - first_tick_number]
  ELSE IF overflow_checks
  THEN [panic |-> TRUE, wrapped |-> FALSE, num |-> 0]
  ELSE [panic |-> FALSE, wrapped |-> TRUE,
        num |-> first_tick_number - last_tick_number]

ZeroRate == [wrapped |-> FALSE, num |-> 0, den |-> 1]

\* thought_rate_hz as the fraction num / den; "panic" when line 311 panics
ThoughtRate(history, overflow_checks) ==
  IF Len(history) > 1
  THEN LET first == history[1]
           last == history[Len(history)]
           time_span == TimeSpan(last[2], first[2])
           thought_count == ThoughtCount(last[1], first[1], overflow_checks)
       IN IF thought_count.panic THEN [panic |-> TRUE, rate |-> ZeroRate]
          ELSE IF time_span > 0
          THEN [panic |-> FALSE,
                rate |-> [wrapped |-> thought_count.wrapped,
                          num |-> thought_count.num, den |-> time_span]]
          ELSE [panic |-> FALSE, rate |-> ZeroRate]
  ELSE [panic |-> FALSE, rate |-> ZeroRate]

\* (thought_rate_hz / 10.0).min(1.0) as a fraction; a wrapped count is
\* above 4 * 10^9 and so above ten times any time span of the window
NeuralActivity(rate) ==
  IF rate.wrapped \/ rate.num > 10 * rate.den
  THEN [num |-> 1, den |-> 1]
  ELSE [num |-> rate.num, den |-> 10 * rate.den]

\* faulty variant: the monitor call empties the history it has read
GetConsciousnessMonitor_Drains ==
  /\ CanLock(mutex)
  /\ \E overflow_checks \in BOOLEAN :
       LET result == ThoughtRate(thought_history, overflow_checks)
           samples == Len(thought_history)
           time_span == IF samples > 1
                        THEN TimeSpan(thought_history[samples][2],
                                      thought_history[1][2])
                        ELSE 0
       IN /\ monitor' =
               [outcome |-> IF result.panic THEN "panic" ELSE "returned",
                samples |-> samples, time_span |-> time_span,
                thought_rate_hz |-> result.rate,
                neural_activity |-> NeuralActivity(result.rate)]
          /\ mutex' = IF result.panic THEN "poisoned" ELSE mutex
  /\ thought_history' = <<>>
  /\ UNCHANGED <<segment, now, memory_map, last_observed_tick,
                 consciousness_start_time, pc, latest_tick, seen_epoch,
                 last_tick, emitted, ghost, attempt, probe,
                 extra>>

\* the get_consciousness_monitor command: lock, compute, unlock; a panic
\* while the guard is held poisons the mutex
GetConsciousnessMonitor ==
  /\ CanLock(mutex)
  /\ \E overflow_checks \in BOOLEAN :
       LET result == ThoughtRate(thought_history, overflow_checks)
           samples == Len(thought_history)
           time_span == IF samples > 1
                        THEN TimeSpan(thought_history[samples][2],
                                      thought_history[1][2])
                        ELSE 0
       IN /\ monitor' =
               [outcome |-> IF result.panic THEN "panic" ELSE "returned",
                samples |-> samples, time_span |-> time_span,
                thought_rate_hz |-> result.rate,
                neural_activity |-> NeuralActivity(result.rate)]
          /\ mutex' = IF result.panic THEN "poisoned" ELSE mutex
  /\ UNCHANGED <<segment, now, reader, pc, latest_tick, seen_epoch,
                 last_tick, emitted, ghost, attempt, probe,
                 extra>>

NextMonitor ==
  \/ ProducerWriteHeader
  \/ ClockTick
  \/ ConnectToConsciousness
  \/ BridgePollBegin
  \/ BridgePollFinish
  \/ GetConsciousnessMonitor

SpecMonitor == Init /\ [][NextMonitor]_vars

(* ============ TickMonitor ============ *)

\* everything but the TickMonitor
program == <<segment, now, reader, mutex, pc, latest_tick, seen_epoch,
             last_tick, emitted, ghost, attempt, probe, monitor,
             stop_requested, desktop>>

\* faulty variant: connecting starts from a fresh state
ConnectedState_Fresh(state) ==
  [DefaultTickMonitorState EXCEPT !.connection_status = "Connected"]

\* connect: state.connection_status = "Connected"
ConnectedState(state) == [state EXCEPT !.connection_status = "Connected"]

\* faulty variant: the flag is set instead of cleared
StoppedState_Active(state, connected) ==
  [state EXCEPT !.monitoring_active = TRUE,
                !.connection_status =
                  IF connected THEN "Connected" ELSE "Disconnected"]

\* stop_monitoring: the state written after the join
StoppedState(state, connected) ==
  [state EXCEPT !.monitoring_active = FALSE,
                !.connection_status =
                  IF connected THEN "Connected" ELSE "Disconnected"]

\* the state one iteration of the monitoring thread writes
TickedState(state, tick_counter) ==
  [state EXCEPT !.current_tick = [some |-> TRUE, tick_id |-> tick_counter],
                !.total_ticks = tick_counter,
                !.monitoring_active = TRUE,
                !.connection_status = "Connected"]

\* TickMonitor::connect / connect_tick_monitor: always Ok
TickConnect ==
  /\ tick_monitor.call = "none"
  /\ tick_monitor' =
       [tick_monitor EXCEPT
          !.connected = TRUE,
          !.state = ConnectedState(tick_monitor.state),
          !.op = "connect",
          !.connects = IF @ < 2 THEN @ + 1 ELSE @]
  /\ UNCHANGED program

\* TickMonitor::get_state: a clone of the state
TickGetState ==
  /\ tick_monitor.call = "none"
  /\ tick_monitor' = [tick_monitor EXCEPT !.op = "get_state"]
  /\ UNCHANGED program

\* the thread the next start_monitoring would spawn
NextThread ==
  CHOOSE i \in 1 .. MaxStarts :
    /\ tick_monitor.threads[i].pc = "unborn"
    /\ \A j \in 1 .. i - 1 : tick_monitor.threads[j].pc # "unborn"

\* faulty variant: start_monitoring does not look at connected
StartRefused_Never(m) == FALSE

\* lines 79-81: start_monitoring returns Err on a monitor not connected
StartRefused(m) == ~m.connected

\* TickMonitor::start_monitoring: Err when not connected; otherwise the flag
\* is reset, a thread is spawned and its handle replaces the stored one
StartMonitoring ==
  /\ tick_monitor.call = "none"
  /\ IF StartRefused(tick_monitor)
     THEN tick_monitor' = [tick_monitor EXCEPT !.op = "start_failed"]
     ELSE /\ \E i \in 1 .. MaxStarts : tick_monitor.threads[i].pc = "unborn"
          /\ tick_monitor' =
               [tick_monitor EXCEPT
                  !.should_stop = FALSE,
                  !.threads[NextThread].pc = "check",
                  !.monitoring_thread = NextThread,
                  !.op = "start",
                  !.ever_started = TRUE,
                  !.stopped = FALSE]
  /\ UNCHANGED program

\* stop_monitoring, lines 142-145: set the flag, take the handle, join
StopBegin ==
  /\ tick_monitor.call = "none"
  /\ tick_monitor' =
       [tick_monitor EXCEPT
          !.should_stop = TRUE,
          !.joining = tick_monitor.monitoring_thread,
          !.monitoring_thread = 0,
          !.call = "stop"]
  /\ UNCHANGED program

\* stop_monitoring, lines 148-155: the join has returned, write the state
StopFinish ==
  /\ tick_monitor.call = "stop"
  /\ IF tick_monitor.joining = 0 THEN TRUE
     ELSE tick_monitor.threads[tick_monitor.joining].pc = "done"
  /\ tick_monitor' =
       [tick_monitor EXCEPT
          !.state = StoppedState(tick_monitor.state, tick_monitor.connected),
          !.call = "none",
          !.joining = 0,
          !.op = "stop",
          !.stopped = TRUE]
  /\ UNCHANGED program

\* faulty variant: the loop never tests the flag
ThreadCheck_IgnoresFlag(i) ==
  /\ tick_monitor.threads[i].pc = "check"
  /\ tick_monitor.threads[i].tick_counter < MaxTickCounter
  /\ tick_monitor' = [tick_monitor EXCEPT !.threads[i].pc = "update"]
  /\ UNCHANGED program

\* the thread, lines 96-100: leave the loop when the flag is set
ThreadCheck(i) ==
  /\ tick_monitor.threads[i].pc = "check"
  /\ \/ tick_monitor.should_stop
     \/ tick_monitor.threads[i].tick_counter < MaxTickCounter
  /\ tick_monitor' =
       [tick_monitor EXCEPT
          !.threads[i].pc = IF tick_monitor.should_stop THEN "done"
                            ELSE "update"]
  /\ UNCHANGED program

\* the thread, lines 103-124: count the tick and write the state
ThreadUpdate(i) ==
  /\ tick_monitor.threads[i].pc = "update"
  /\ tick_monitor' =
       [tick_monitor EXCEPT
          !.threads[i].tick_counter = @ + 1,
          !.threads[i].pc = "emit",
          !.state = TickedState(tick_monitor.state,
                                tick_monitor.threads[i].tick_counter + 1)]
  /\ UNCHANGED program

\* the thread, lines 127-132: emit tick-update, sleep, next iteration
ThreadEmit(i) ==
  /\ tick_monitor.threads[i].pc = "emit"
  /\ tick_monitor' =
       [tick_monitor EXCEPT
          !.threads[i].pc = "check",
          !.events = @ + 1]
  /\ UNCHANGED program

NextTickMonitor ==
  \/ TickConnect
  \/ TickGetState
  \/ StartMonitoring
  \/ StopBegin
  \/ StopFinish
  \/ \E i \in 1 .. MaxStarts : ThreadCheck(i)
  \/ \E i \in 1 .. MaxStarts : ThreadUpdate(i)
  \/ \E i \in 1 .. MaxStarts : ThreadEmit(i)

SpecTickMonitor == Init /\ [][NextTickMonitor]_vars

\* one iteration of the thread spawned i-th
ThreadStep(i) == ThreadCheck(i) \/ ThreadUpdate(i) \/ ThreadEmit(i)

\* every spawned thread is scheduled, and a join whose thread has ended
\* returns
SpecTickLive ==
  /\ Init
  /\ [][NextTickMonitor]_vars
  /\ \A i \in 1 .. MaxStarts : WF_vars(ThreadStep(i))
  /\ WF_vars(StopFinish)

(* ============ dawn-desktop: the metrics stream ============ *)

\* the consciousness GUI: everything outside dawn-desktop
gui == <<segment, now, reader, mutex, pc, latest_tick, seen_epoch, last_tick,
         emitted, ghost, attempt, probe, monitor, stop_requested,
         tick_monitor>>

\* the tasks running connect_to_metrics_stream
ActiveStreams == {t \in 1 .. MaxStreamTasks : metrics.tasks[t] # "unborn"}

\* the task the next tokio::spawn creates
NextStream ==
  CHOOSE t \in 1 .. MaxStreamTasks :
    /\ metrics.tasks[t] = "unborn"
    /\ \A u \in 1 .. t - 1 : metrics.tasks[u] # "unborn"

\* tokio::spawn(connect_to_metrics_stream(..)): the task starts connecting
SpawnStream(m) == [m EXCEPT !.tasks[NextStream] = "connecting"]

\* setup: the stream task started with the application
SetupSpawnStream ==
  /\ ~metrics.setup_done
  /\ Cardinality(ActiveStreams) + metrics.pending < MaxStreamTasks
  /\ metrics' = [SpawnStream(metrics) EXCEPT !.setup_done = TRUE]
  /\ UNCHANGED <<gui, tracker, listener>>

\* subscribe_to_metrics, lines 632-640: the test of the flag under the lock
SubscribeCheck ==
  /\ IF metrics.websocket_connected
     THEN metrics' = [metrics EXCEPT !.op = "already"]
     ELSE /\ Cardinality(ActiveStreams) + metrics.pending < MaxStreamTasks
          /\ metrics' = [metrics EXCEPT !.pending = @ + 1]
  /\ UNCHANGED <<gui, tracker, listener>>

\* subscribe_to_metrics, lines 642-656: the spawn and the return
SubscribeSpawn ==
  /\ metrics.pending > 0
  /\ metrics' = [SpawnStream(metrics) EXCEPT !.pending = @ - 1,
                                             !.op = "started"]
  /\ UNCHANGED <<gui, tracker, listener>>

\* connect_async succeeded: the flag is set
StreamConnected(t) ==
  /\ metrics.tasks[t] = "connecting"
  /\ metrics' = [metrics EXCEPT !.tasks[t] = "streaming",
                                !.websocket_connected = TRUE]
  /\ UNCHANGED <<gui, tracker, listener>>

\* connect_async failed: wait 5 seconds
StreamConnectFailed(t) ==
  /\ metrics.tasks[t] = "connecting"
  /\ metrics' = [metrics EXCEPT !.tasks[t] = "waiting"]
  /\ UNCHANGED <<gui, tracker, listener>>

\* a text message: metrics-update is emitted
StreamMessage(t) ==
  /\ metrics.tasks[t] = "streaming"
  /\ metrics.updates < MaxUpdates
  /\ metrics' = [metrics EXCEPT !.updates = @ + 1]
  /\ UNCHANGED <<gui, tracker, listener>>

\* Close, an error or the end of the stream: the flag is cleared
StreamLost(t) ==
  /\ metrics.tasks[t] = "streaming"
  /\ metrics' = [metrics EXCEPT !.tasks[t] = "waiting",
                                !.websocket_connected = FALSE]
  /\ UNCHANGED <<gui, tracker, listener>>

\* the 5 seconds are over: next iteration of the loop
StreamRetry(t) ==
  /\ metrics.tasks[t] = "waiting"
  /\ metrics' = [metrics EXCEPT !.tasks[t] = "connecting"]
  /\ UNCHANGED <<gui, tracker, listener>>

NextMetrics ==
  \/ SetupSpawnStream
  \/ SubscribeCheck
  \/ SubscribeSpawn
  \/ \E t \in 1 .. MaxStreamTasks : StreamConnected(t)
  \/ \E t \in 1 .. MaxStreamTasks : StreamConnectFailed(t)
  \/ \E t \in 1 .. MaxStreamTasks : StreamMessage(t)
  \/ \E t \in 1 .. MaxStreamTasks : StreamLost(t)
  \/ \E t \in 1 .. MaxStreamTasks : StreamRetry(t)

SpecMetrics == Init /\ [][NextMetrics]_vars

(* ============ dawn-desktop: the Python process tracker ============ *)

\* the result of cmd.spawn(): a new process with a PID not used before
Spawned(t) ==
  [t EXCEPT !.python_processes = t.next_pid,
            !.alive = @ \cup {t.next_pid},
            !.next_pid = @ + 1,
            !.op = "started"]

\* start_python_process: spawn, then insert(script, pid) under the lock; a
\* failed spawn leaves the tracker alone
StartPythonProcess ==
  /\ tracker.next_pid <= MaxPids
  /\ \/ tracker' = Spawned(tracker)
     \/ tracker' = [tracker EXCEPT !.op = "start_failed"]
  /\ UNCHANGED <<gui, metrics, listener>>

\* stop_python_process: remove(script) under the lock, then kill -TERM,
\* which the process may survive
StopPythonProcess ==
  /\ IF tracker.python_processes = 0
     THEN tracker' = [tracker EXCEPT !.op = "no_process"]
     ELSE \E killed \in BOOLEAN :
            tracker' =
              [tracker EXCEPT
                 !.python_processes = 0,
                 !.alive = IF killed THEN @ \ {tracker.python_processes}
                           ELSE @,
                 !.op = "stopped"]
  /\ UNCHANGED <<gui, metrics, listener>>

\* a Python process ends by itself
ProcessExits(p) ==
  /\ p \in tracker.alive
  /\ tracker' = [tracker EXCEPT !.alive = @ \ {p}]
  /\ UNCHANGED <<gui, metrics, listener>>

\* the entry remove(&script) takes out of the map is whatever is there
RemoveEntry(t, by, read) ==
  [t EXCEPT !.python_processes = 0,
            !.removed = [by |-> by, read |-> read,
                         entry |-> t.python_processes]]

\* check_python_process_status, lines 1657-1685: get the PID and probe it
\* with the lock held; a dead process leads to drop(processes)
CheckStatusBegin ==
  /\ tracker.check.pc = "idle"
  /\ tracker' =
       IF tracker.python_processes = 0
       THEN [tracker EXCEPT !.op = "not_running"]
       ELSE IF tracker.python_processes \in tracker.alive
       THEN [tracker EXCEPT !.op = "running"]
       ELSE [tracker EXCEPT
               !.check = [pc |-> "remove", pid |-> tracker.python_processes]]
  /\ UNCHANGED <<gui, metrics, listener>>

\* check_python_process_status, lines 1687-1694: lock again and remove
CheckStatusRemove ==
  /\ tracker.check.pc = "remove"
  /\ tracker' =
       [RemoveEntry(tracker, "check", tracker.check.pid) EXCEPT
          !.check = [pc |-> "idle", pid |-> 0],
          !.op = "not_running"]
  /\ UNCHANGED <<gui, metrics, listener>>

\* get_process_stats, line 1750: clone the map under the lock
StatsBegin ==
  /\ tracker.stats.pc = "idle"
  /\ tracker' =
       IF tracker.python_processes = 0
       THEN [tracker EXCEPT !.op = "stats"]
       ELSE [tracker EXCEPT
               !.stats = [pc |-> "probe", pid |-> tracker.python_processes]]
  /\ UNCHANGED <<gui, metrics, listener>>

\* get_process_stats, lines 1753-1762: ps or wmic for the PID of the clone;
\* a running process gives its statistics, a dead one an error
StatsProbe ==
  /\ tracker.stats.pc = "probe"
  /\ tracker' =
       IF tracker.stats.pid \in tracker.alive
       THEN [tracker EXCEPT !.stats = [pc |-> "idle", pid |-> 0],
                            !.op = "stats"]
       ELSE [tracker EXCEPT !.stats.pc = "remove"]
  /\ UNCHANGED <<gui, metrics, listener>>

\* get_process_stats, lines 1763-1768: lock and remove
StatsRemove ==
  /\ tracker.stats.pc = "remove"
  /\ tracker' =
       [RemoveEntry(tracker, "stats", tracker.stats.pid) EXCEPT
          !.stats = [pc |-> "idle", pid |-> 0],
          !.op = "stats"]
  /\ UNCHANGED <<gui, metrics, listener>>

NextTracker ==
  \/ StartPythonProcess
  \/ StopPythonProcess
  \/ \E p \in 1 .. MaxPids : ProcessExits(p)
  \/ CheckStatusBegin
  \/ CheckStatusRemove
  \/ StatsBegin
  \/ StatsProbe
  \/ StatsRemove

SpecTracker == Init /\ [][NextTracker]_vars

(* ============ dawn-desktop: listen_for_thoughts ============ *)

\* faulty variant: a successful connect keeps the count
RetryAfterConnect_Keeps(retry_count) == retry_count

\* line 2145: retry_count = 0 on a successful connect
RetryAfterConnect(retry_count) == 0

\* lines 2188-2193: the count after a failed connect, and whether to give up
RetryAfterFailure(retry_count) == retry_count + 1
GivesUp(retry_count) == retry_count >= MAX_RETRIES

\* connect_async succeeded
ListenerConnected ==
  /\ listener.pc = "connecting"
  /\ listener.connections < MaxConnections
  /\ listener' =
       [listener EXCEPT
          !.pc = "listening",
          !.retry_count = RetryAfterConnect(@),
          !.failed_run = 0,
          !.connections = @ + 1]
  /\ UNCHANGED <<gui, metrics, tracker>>

\* connect_async failed: count, give up at MAX_RETRIES, otherwise wait
ListenerConnectFailed ==
  /\ listener.pc = "connecting"
  /\ listener' =
       [listener EXCEPT
          !.retry_count = RetryAfterFailure(@),
          !.failed_run = @ + 1,
          !.pc = IF GivesUp(RetryAfterFailure(listener.retry_count))
                 THEN "done" ELSE "waiting"]
  /\ UNCHANGED <<gui, metrics, tracker>>

\* a text message: dawn-thought is emitted
ListenerThought ==
  /\ listener.pc = "listening"
  /\ listener.thoughts < MaxThoughts
  /\ listener' = [listener EXCEPT !.thoughts = @ + 1]
  /\ UNCHANGED <<gui, metrics, tracker>>

\* Close, an error or the end of the stream: wait, then connect again
ListenerLost ==
  /\ listener.pc = "listening"
  /\ listener' = [listener EXCEPT !.pc = "waiting"]
  /\ UNCHANGED <<gui, metrics, tracker>>

\* RETRY_DELAY is over
ListenerRetry ==
  /\ listener.pc = "waiting"
  /\ listener' = [listener EXCEPT !.pc = "connecting"]
  /\ UNCHANGED <<gui, metrics, tracker>>

NextListener ==
  \/ ListenerConnected
  \/ ListenerConnectFailed
  \/ ListenerThought
  \/ ListenerLost
  \/ ListenerRetry

SpecListener == Init /\ [][NextListener]_vars

(* ============ the pure functions, applied to sampled inputs ============ *)

\* an input handed to one of the functions; out is filled in by the call
Sample(kind, in) == [kind |-> kind, in |-> in, out |-> <<>>, done |-> FALSE]

\* the candidates of one locate_consciousness_memory call
LocateInputs == {Sample("locate", c) : c \in CandidateVectors}

\* locate_consciousness_memory applied to the sampled candidates
LocateSample ==
  /\ probe.kind = "locate" /\ ~probe.done
  /\ probe' = [probe EXCEPT !.out = LocateConsciousnessMemory(probe.in),
                            !.done = TRUE]
  /\ UNCHANGED <<segment, now, reader, mutex, pc, latest_tick, seen_epoch,
                 last_tick, emitted, ghost, attempt, monitor,
                 extra>>

\* f32 fields are held in hundredths: 0.7 is 70, 1.0 is 100
MoodGridMax == 10
ValenceGrid == {10 * k : k \in -MoodGridMax .. MoodGridMax}
UnitGrid == {10 * k : k \in 0 .. MoodGridMax}

\* the first block of determine_mood, "none" when it returns nothing
HighCoherenceMood(valence, arousal, dominance) ==
  IF valence > 30 /\ arousal < 40 THEN "CALM"
  ELSE IF valence > 50 /\ arousal > 60 THEN "EXCITED"
  ELSE IF valence < -30 /\ arousal > 60 THEN "FOCUSED"
  ELSE IF valence > 0 /\ dominance > 60 THEN "CONFIDENT"
  ELSE "none"

\* the second block of determine_mood, "none" when it returns nothing
MediumCoherenceMood(valence, arousal) ==
  IF valence < -40 /\ arousal > 50 THEN "ANXIOUS"
  ELSE IF valence < -20 /\ arousal < 40 THEN "CONTEMPLATIVE"
  ELSE IF arousal > 70 THEN "ENERGETIC"
  ELSE "none"

\* faulty variant: the chaotic test runs before the coherence blocks
DetermineMood_ChaoticFirst(valence, arousal, dominance, coherence) ==
  IF coherence < 30 \/ arousal > 80 THEN "CHAOTIC"
  ELSE IF coherence > 70
          /\ HighCoherenceMood(valence, arousal, dominance) # "none"
  THEN HighCoherenceMood(valence, arousal, dominance)
  ELSE IF coherence > 40 /\ MediumCoherenceMood(valence, arousal) # "none"
  THEN MediumCoherenceMood(valence, arousal)
  ELSE "NEUTRAL"

\* determine_mood: three ifs in sequence, each returning on a match
DetermineMood(valence, arousal, dominance, coherence) ==
  IF coherence > 70 /\ HighCoherenceMood(valence, arousal, dominance) # "none"
  THEN HighCoherenceMood(valence, arousal, dominance)
  ELSE IF coherence > 40 /\ MediumCoherenceMood(valence, arousal) # "none"
  THEN MediumCoherenceMood(valence, arousal)
  ELSE IF coherence < 30 \/ arousal > 80 THEN "CHAOTIC"
  ELSE "NEUTRAL"

\* valence, arousal, dominance, coherence of one determine_mood call
MoodInputs ==
  {Sample("mood", <<v, a, d, c>>) :
     v \in ValenceGrid, a \in UnitGrid, d \in UnitGrid, c \in UnitGrid}

\* determine_mood applied to the sampled fields
MoodSample ==
  /\ probe.kind = "mood" /\ ~probe.done
  /\ probe' = [probe EXCEPT
                 !.out = DetermineMood(probe.in[1], probe.in[2], probe.in[3],
                                       probe.in[4]),
                 !.done = TRUE]
  /\ UNCHANGED <<segment, now, reader, mutex, pc, latest_tick, seen_epoch,
                 last_tick, emitted, ghost, attempt, monitor,
                 extra>>

\* semantic_alignment and consciousness_depth in hundredths, in steps of 0.5
MetricGridMax == 4
WeightGrid == {50 * k : k \in -MetricGridMax .. MetricGridMax}
\* entropy_gradient and drift_magnitude in hundredths, from below 0 to above 1
GradientGrid == {10 * k : k \in -2 .. MoodGridMax + 2}

\* faulty variant: the upper limit is not applied
Clamp_NoUpper(x, lo, hi) == IF x < lo THEN lo ELSE x

\* f32::clamp
Clamp(x, lo, hi) == IF x < lo THEN lo ELSE IF x > hi THEN hi ELSE x

\* the SCUP expression, in hundredths of a SCUP point
Scup(semantic_alignment, consciousness_depth) ==
  Clamp(semantic_alignment * 50 + consciousness_depth * 30, 0, 100 * 100)

\* faulty variant: the mildest test comes first
DetermineConsciousnessZone_MildFirst(entropy, scup, heat) ==
  IF entropy > 40 \/ scup > 40 * 100 \/ heat > 50 THEN "ELEVATED"
  ELSE IF entropy > 60 \/ scup > 60 * 100 \/ heat > 70 THEN "WARNING"
  ELSE IF entropy > 80 \/ scup > 80 * 100 \/ heat > 90 THEN "CRITICAL"
  ELSE "STABLE"

\* determine_consciousness_zone; scup in hundredths of a SCUP point
DetermineConsciousnessZone(entropy, scup, heat) ==
  IF entropy > 80 \/ scup > 80 * 100 \/ heat > 90 THEN "CRITICAL"
  ELSE IF entropy > 60 \/ scup > 60 * 100 \/ heat > 70 THEN "WARNING"
  ELSE IF entropy > 40 \/ scup > 40 * 100 \/ heat > 50 THEN "ELEVATED"
  ELSE "STABLE"

\* the metric part of map_consciousness_to_dawn_state
DeriveMetrics(alignment, depth, entropy_gradient, drift_magnitude) ==
  LET entropy == Clamp(entropy_gradient, 0, 100)
      scup == Scup(alignment, depth)
      heat == Clamp(drift_magnitude, 0, 100)
  IN [entropy |-> entropy, scup |-> scup, heat |-> heat,
      zone |-> DetermineConsciousnessZone(entropy, scup, heat)]

\* semantic_alignment, consciousness_depth, entropy_gradient, drift_magnitude
MetricInputs ==
  {Sample("metrics", <<sa, cd, eg, dm>>) :
     sa \in WeightGrid, cd \in WeightGrid,
     eg \in GradientGrid, dm \in GradientGrid}

\* map_consciousness_to_dawn_state applied to the sampled metric fields
MetricSample ==
  /\ probe.kind = "metrics" /\ ~probe.done
  /\ probe' = [probe EXCEPT
                 !.out = DeriveMetrics(probe.in[1], probe.in[2], probe.in[3],
                                       probe.in[4]),
                 !.done = TRUE]
  /\ UNCHANGED <<segment, now, reader, mutex, pc, latest_tick, seen_epoch,
                 last_tick, emitted, ghost, attempt, monitor,
                 extra>>

SECTOR_COUNT == 64
SECTOR_MASK_BYTES == 8

\* the bits a producer may set in the mask: subsets of the bits next to the
\* byte and word boundaries, every odd bit, every even bit, all bits
BoundaryBits == {0, 1, 7, 8, 31, 32, 62, 63}
SectorMasks ==
  SUBSET BoundaryBits
    \cup {{i \in 0 .. SECTOR_COUNT - 1 : i % 2 = 1},
          {i \in 0 .. SECTOR_COUNT - 1 : i % 2 = 0},
          0 .. SECTOR_COUNT - 1}

RECURSIVE SumOver(_, _)
SumOver(set, weight) ==
  IF set = {} THEN 0
  ELSE LET x == CHOOSE y \in set : TRUE
       IN weight[x] + SumOver(set \ {x}, weight)

\* the producer's side: the mask stored little-endian at bytes 72..79
MaskToLeBytes(bits) ==
  [k \in 1 .. SECTOR_MASK_BYTES |->
     SumOver({i \in bits : i \div 8 = k - 1},
             [i \in 0 .. SECTOR_COUNT - 1 |-> 2 ^ (i % 8)])]

\* faulty variant: the bytes are assembled most significant first
U64FromLeBytes_BigEndian(bytes) ==
  [j \in 0 .. 3 |-> bytes[8 - 2 * j] + 256 * bytes[7 - 2 * j]]

\* u64::from_le_bytes; the value is held as four 16-bit limbs, least
\* significant first
U64FromLeBytes(bytes) ==
  [j \in 0 .. 3 |-> bytes[2 * j + 1] + 256 * bytes[2 * j + 2]]

\* (memory_bits & (1 << i)) != 0
SectorActive(memory_bits, i) ==
  (memory_bits[i \div 16] \div (2 ^ (i % 16))) % 2 # 0

\* the memory sector part of decode_consciousness_state
DecodeMemorySectors(bytes) ==
  LET memory_bits == U64FromLeBytes(bytes)
  IN [i \in 0 .. SECTOR_COUNT - 1 |-> SectorActive(memory_bits, i)]

\* the sigil count of map_consciousness_to_dawn_state
CountSigils(memory_sectors) ==
  Cardinality({i \in DOMAIN memory_sectors : memory_sectors[i]})

\* bytes 72..79 of a record as the producer wrote them for a mask
SectorInputs ==
  {Sample("sectors", [bits |-> m, bytes |-> MaskToLeBytes(m)]) :
     m \in SectorMasks}

\* the mask decoded by decode_consciousness_state and counted by
\* map_consciousness_to_dawn_state
SectorSample ==
  /\ probe.kind = "sectors" /\ ~probe.done
  /\ probe' = [probe EXCEPT
                 !.out = [memory_sectors |-> DecodeMemorySectors(probe.in.bytes),
                          sigils |->
                            CountSigils(DecodeMemorySectors(probe.in.bytes))],
                 !.done = TRUE]
  /\ UNCHANGED <<segment, now, reader, mutex, pc, latest_tick, seen_epoch,
                 last_tick, emitted, ghost, attempt, monitor,
                 extra>>

F32_SIZE == 4
HEATMAP_SIZE == 256
HEATMAP_OFFSET == 80
PREDICTION_SIZE == 32
PREDICTION_OFFSET == 1104
HASH_OFFSET == 1232
HASH_END == 1264
PLACEHOLDER_HASH == <<"u", "n", "k", "n", "o", "w", "n">>

\* slice lengths around every boundary of the layout, the empty slice, a
\* slice ending inside the heatmap and a whole slot
DecodeSlack == 1
LayoutBoundaries ==
  {MIN_RECORD_SIZE, HEATMAP_OFFSET + F32_SIZE, HEATMAP_OFFSET + 100 * F32_SIZE,
   PREDICTION_OFFSET, PREDICTION_OFFSET + F32_SIZE, HASH_OFFSET, HASH_END}
SliceLens ==
  {b + d : b \in LayoutBoundaries, d \in -DecodeSlack .. DecodeSlack}
    \cup {0, TICK_STATE_SIZE}

\* the 32 hash bytes as far as they matter: text, then NUL padding; the
\* last one has a NUL inside the text, the third spells the placeholder
HashFields ==
  {<<"NUL", "NUL", "NUL">>, <<"a", "b", "NUL">>,
   PLACEHOLDER_HASH \o <<"NUL">>, <<"a", "NUL", "b">>}

\* the f32 the producer stored at a byte offset of the record; never 0.0
F32At(start) == start

RECURSIVE TrimEndNul(_)
\* trim_end_matches('\0')
TrimEndNul(text) ==
  IF text # <<>> /\ text[Len(text)] = "NUL"
  THEN TrimEndNul(SubSeq(text, 1, Len(text) - 1))
  ELSE text

\* faulty variant: an element ending exactly at the end of the slice is
\* dropped
ElementInside_Strict(start, len) == start + F32_SIZE < len

\* start + 4 <= neural_data.len()
ElementInside(start, len) == start + F32_SIZE <= len

\* one of the two array loops of decode_consciousness_state
DecodeArray(offset, size, len) ==
  [i \in 1 .. size |->
     LET start == offset + (i - 1) * F32_SIZE
     IN IF ElementInside(start, len) THEN F32At(start) ELSE 0]

\* decode_consciousness_state, the arrays and the hash of the record
DecodeConsciousnessArrays(len, bytes, hashField) ==
  IF len < MIN_RECORD_SIZE THEN [some |-> FALSE]
  ELSE [some |-> TRUE,
        memory_sectors |-> DecodeMemorySectors(bytes),
        semantic_heatmap |-> DecodeArray(HEATMAP_OFFSET, HEATMAP_SIZE, len),
        prediction_vector |->
          DecodeArray(PREDICTION_OFFSET, PREDICTION_SIZE, len),
        hash_from_slice |-> len >= HASH_END,
        tensor_hash |-> IF len >= HASH_END THEN TrimEndNul(hashField)
                        ELSE PLACEHOLDER_HASH]

\* a slice of some length holding a mask and a hash field
DecodeInputs ==
  {Sample("decode", [len |-> n, bytes |-> MaskToLeBytes(m), hash |-> h]) :
     n \in SliceLens, m \in {{}, {0, 63}}, h \in HashFields}

\* decode_consciousness_state applied to the sampled slice
DecodeSample ==
  /\ probe.kind = "decode" /\ ~probe.done
  /\ probe' = [probe EXCEPT
                 !.out = DecodeConsciousnessArrays(probe.in.len, probe.in.bytes,
                                                   probe.in.hash),
                 !.done = TRUE]
  /\ UNCHANGED <<segment, now, reader, mutex, pc, latest_tick, seen_epoch,
                 last_tick, emitted, ghost, attempt, monitor,
                 extra>>

ProbeInputs == LocateInputs \cup MoodInputs \cup MetricInputs
    \cup SectorInputs \cup DecodeInputs

InitFunctions ==
  /\ InitProgram
  /\ probe \in ProbeInputs

NextFunctions ==
  \/ LocateSample
  \/ MoodSample
  \/ MetricSample
  \/ SectorSample
  \/ DecodeSample

SpecFunctions == InitFunctions /\ [][NextFunctions]_vars

FirstUsable(cands) ==
  IF \E i \in 1 .. CANDIDATE_COUNT : cands[i] = "exists"
  THEN CHOOSE i \in 1 .. CANDIDATE_COUNT :
         /\ cands[i] = "exists"
         /\ \A j \in 1 .. i - 1 : cands[j] # "exists"
  ELSE 0

\* C13: discovery resolves to the first candidate, in the order explicit
\* argument, fixed paths, environment override, that exists; it fails with
\* not-found exactly when none exists; an existing explicit path wins.
C13_DiscoveryOrder ==
  (probe.kind = "locate" /\ probe.done)
    => /\ probe.out = FirstUsable(probe.in)
       /\ (probe.out = 0) <=> (\A i \in 1 .. 7 : probe.in[i] # "exists")
       /\ probe.in[1] = "exists" => probe.out = 1
       /\ (probe.in[1] # "exists" /\ \E i \in 2 .. 6 : probe.in[i] = "exists")
            => probe.out \in 2 .. 6
       /\ (probe.out = 7) <=> (/\ probe.in[7] = "exists"
                               /\ \A i \in 1 .. 6 : probe.in[i] # "exists")

\* C13 witness: discovery was given an empty explicit path and existing
\* third fixed path and environment override, and took the fixed path
C13_Witness ==
  /\ probe.kind = "locate" /\ probe.done
  /\ probe.in[1] = "empty"
  /\ probe.in[2] = "missing"
  /\ probe.in[4] = "exists"
  /\ probe.in[7] = "exists"
  /\ probe.out = 4

MoodCall == probe.kind = "mood" /\ probe.done
Valence == probe.in[1]
Arousal == probe.in[2]
Dominance == probe.in[3]
Coherence == probe.in[4]

\* C14: an input with coherence > 0.7 that matches none of CALM, EXCITED,
\* FOCUSED, CONFIDENT is never classified ANXIOUS, CONTEMPLATIVE or ENERGETIC.
C14_MediumRulesOnlyBelowHighBand ==
  (/\ MoodCall
   /\ Coherence > 70
   /\ ~(Valence > 30 /\ Arousal < 40)
   /\ ~(Valence > 50 /\ Arousal > 60)
   /\ ~(Valence < -30 /\ Arousal > 60)
   /\ ~(Valence > 0 /\ Dominance > 60))
    => probe.out \notin {"ANXIOUS", "CONTEMPLATIVE", "ENERGETIC"}

MoodLabels == {"CALM", "EXCITED", "FOCUSED", "CONFIDENT", "ANXIOUS",
               "CONTEMPLATIVE", "ENERGETIC", "CHAOTIC", "NEUTRAL"}

\* the rules in their order, each with the condition under which it matches
MoodRules ==
  << <<Coherence > 70 /\ Valence > 30 /\ Arousal < 40, "CALM">>,
     <<Coherence > 70 /\ Valence > 50 /\ Arousal > 60, "EXCITED">>,
     <<Coherence > 70 /\ Valence < -30 /\ Arousal > 60, "FOCUSED">>,
     <<Coherence > 70 /\ Valence > 0 /\ Dominance > 60, "CONFIDENT">>,
     <<Coherence > 40 /\ Valence < -40 /\ Arousal > 50, "ANXIOUS">>,
     <<Coherence > 40 /\ Valence < -20 /\ Arousal < 40, "CONTEMPLATIVE">>,
     <<Coherence > 40 /\ Arousal > 70, "ENERGETIC">>,
     <<Coherence < 30 \/ Arousal > 80, "CHAOTIC">>,
     <<TRUE, "NEUTRAL">> >>

FirstMatchingRule ==
  CHOOSE i \in 1 .. Len(MoodRules) :
    /\ MoodRules[i][1]
    /\ \A j \in 1 .. i - 1 : ~MoodRules[j][1]

\* C15: determine_mood returns one of the nine labels, the label of the
\* first rule that matches in the order CALM, EXCITED, FOCUSED, CONFIDENT,
\* ANXIOUS, CONTEMPLATIVE, ENERGETIC, CHAOTIC, NEUTRAL; coherence > 0.7 with
\* valence > 0.3 and arousal < 0.4 gives CALM for any dominance.
C15_FirstMatchWins ==
  MoodCall
    => /\ probe.out \in MoodLabels
       /\ probe.out = MoodRules[FirstMatchingRule][2]
       /\ (Coherence > 70 /\ Valence > 30 /\ Arousal < 40)
            => probe.out = "CALM"

\* C15 witness: valence 0.4, arousal 0.2, dominance 0.0, coherence 0.8 was
\* classified CALM
C15_Witness ==
  /\ MoodCall
  /\ probe.in = <<40, 20, 0, 80>>
  /\ probe.out = "CALM"

MetricCall == probe.kind = "metrics" /\ probe.done
WeightedSum == probe.in[1] * 50 + probe.in[2] * 30

\* C16: SCUP is the weighted sum 50 * semantic_alignment + 30 *
\* consciousness_depth limited to [0, 100]: 0 for a negative sum, 100 for a
\* sum above 100, 80 for (1.0, 1.0); entropy and heat lie in [0, 1].
C16_ScupClamped ==
  MetricCall
    => /\ probe.out.scup >= 0 /\ probe.out.scup <= 10000
       /\ WeightedSum < 0 => probe.out.scup = 0
       /\ WeightedSum > 10000 => probe.out.scup = 10000
       /\ WeightedSum \in 0 .. 10000 => probe.out.scup = WeightedSum
       /\ (probe.in[1] = 100 /\ probe.in[2] = 100) => probe.out.scup = 8000
       /\ probe.out.entropy >= 0 /\ probe.out.entropy <= 100
       /\ probe.out.heat >= 0 /\ probe.out.heat <= 100

\* C16 witness: a weighted sum of 150 was limited to 100 while entropy and
\* heat inputs lay outside [0, 1]
C16_Witness ==
  /\ MetricCall
  /\ probe.in = <<150, 150, -20, 120>>
  /\ probe.out.scup = 10000
  /\ probe.out.entropy = 0
  /\ probe.out.heat = 100

Severity(zone) ==
  CASE zone = "STABLE" -> 0
    [] zone = "ELEVATED" -> 1
    [] zone = "WARNING" -> 2
    [] zone = "CRITICAL" -> 3

ZoneOf(m) == DetermineConsciousnessZone(m.entropy, m.scup, m.heat)

\* C17: the zone is CRITICAL when entropy > 0.8 or SCUP > 80 or heat > 0.9,
\* otherwise WARNING when entropy > 0.6 or SCUP > 60 or heat > 0.7, otherwise
\* ELEVATED when entropy > 0.4 or SCUP > 40 or heat > 0.5, otherwise STABLE,
\* over the clamped metrics; raising one metric never lowers the severity.
C17_ZoneMostSevereFirst ==
  MetricCall
    => LET m == probe.out
           critical == m.entropy > 80 \/ m.scup > 8000 \/ m.heat > 90
           warning == m.entropy > 60 \/ m.scup > 6000 \/ m.heat > 70
           elevated == m.entropy > 40 \/ m.scup > 4000 \/ m.heat > 50
       IN /\ critical <=> m.zone = "CRITICAL"
          /\ (~critical /\ warning) <=> m.zone = "WARNING"
          /\ (~critical /\ ~warning /\ elevated) <=> m.zone = "ELEVATED"
          /\ (~critical /\ ~warning /\ ~elevated) <=> m.zone = "STABLE"
          /\ \A e \in m.entropy .. 100 :
               Severity(ZoneOf([m EXCEPT !.entropy = e])) >= Severity(m.zone)
          /\ \A h \in m.heat .. 100 :
               Severity(ZoneOf([m EXCEPT !.heat = h])) >= Severity(m.zone)
          /\ \A k \in 0 .. 100 :
               k * 100 >= m.scup
                 => Severity(ZoneOf([m EXCEPT !.scup = k * 100]))
                      >= Severity(m.zone)

\* C17 witness: entropy 0.9 with SCUP 0 and heat 0 was classified CRITICAL
C17_Witness ==
  /\ MetricCall
  /\ probe.out.entropy = 90
  /\ probe.out.scup = 0
  /\ probe.out.heat = 0
  /\ probe.out.zone = "CRITICAL"

SectorCall == probe.kind = "sectors" /\ probe.done

\* C18: the decoded flag of sector i is bit i of the 64-bit mask, for every
\* i in 0..63, and the active sector count is the number of set bits, in 0..64.
C18_SectorFlagsAreMaskBits ==
  SectorCall
    => /\ DOMAIN probe.out.memory_sectors = 0 .. 63
       /\ \A i \in 0 .. 63 :
            probe.out.memory_sectors[i] <=> i \in probe.in.bits
       /\ probe.out.sigils = Cardinality(probe.in.bits)
       /\ probe.out.sigils \in 0 .. 64

\* C18 witness: the mask 0b1010...10 was decoded: sector 0 inactive, sector
\* 1 and sector 63 active, 32 sectors counted
C18_Witness ==
  /\ SectorCall
  /\ probe.in.bits = {i \in 0 .. 63 : i % 2 = 1}
  /\ ~probe.out.memory_sectors[0]
  /\ probe.out.memory_sectors[1]
  /\ probe.out.memory_sectors[63]
  /\ probe.out.sigils = 32

DecodeCall == probe.kind = "decode" /\ probe.done

\* C19: decode fails exactly for slices shorter than 80 bytes; otherwise it
\* yields 64 sector flags, 256 heatmap values and 32 prediction values, each
\* array element read from the slice exactly when its four bytes lie inside
\* the slice and 0 otherwise, and the placeholder hash exactly for slices
\* shorter than 1264 bytes.
C19_PartialDecode ==
  DecodeCall
    => LET n == probe.in.len
           out == probe.out
       IN /\ out.some <=> n >= 80
          /\ out.some
               => /\ Cardinality(DOMAIN out.memory_sectors) = 64
                  /\ Len(out.semantic_heatmap) = 256
                  /\ Len(out.prediction_vector) = 32
                  /\ \A i \in 0 .. 255 :
                       out.semantic_heatmap[i + 1] =
                         IF 80 + 4 * i + 4 <= n THEN F32At(80 + 4 * i) ELSE 0
                  /\ \A i \in 0 .. 31 :
                       out.prediction_vector[i + 1] =
                         IF 1104 + 4 * i + 4 <= n THEN F32At(1104 + 4 * i)
                         ELSE 0
                  /\ ~out.hash_from_slice <=> n < 1264
                  /\ n < 1264 => out.tensor_hash = PLACEHOLDER_HASH
                  /\ n >= 1264 => out.tensor_hash = TrimEndNul(probe.in.hash)

\* C19 witness: a slice of 85 bytes was decoded: heatmap element 0 read,
\* element 1 cut off and zero, placeholder hash
C19_Witness ==
  /\ DecodeCall
  /\ probe.in.len = 85
  /\ probe.out.some
  /\ probe.out.semantic_heatmap[1] # 0
  /\ probe.out.semantic_heatmap[2] = 0
  /\ probe.out.prediction_vector[32] = 0
  /\ probe.out.tensor_hash = PLACEHOLDER_HASH

\* C20: get_consciousness_monitor returns a rate of exactly 0 when the
\* history holds fewer than two samples and when the time between the first
\* and the last sample is not above 0; it never divides by zero; the neural
\* activity min(rate / 10, 1) is never above 1.
C20_RateZeroWithoutSpan ==
  monitor.outcome # "none"
    => /\ (monitor.samples < 2 \/ monitor.time_span <= 0)
            => /\ monitor.outcome = "returned"
               /\ monitor.thought_rate_hz = ZeroRate
       /\ monitor.thought_rate_hz.den > 0
       /\ monitor.neural_activity.den > 0
       /\ monitor.neural_activity.num <= monitor.neural_activity.den

\* C21: the history never holds more than 120 entries; it holds the most
\* recent observations, at most 120 of them, in the order they were made
\* (in a run of SpecHistory the n-th publication carries tick n).
C21_HistoryWindow ==
  LET held == Len(thought_history)
      seen == Len(appended)
  IN /\ held <= 120
     /\ held = IF seen > 120 THEN 120 ELSE seen
     /\ \A i \in 1 .. held : thought_history[i][1] = appended[seen - held + i]

\* C21 witness: 122 ticks were observed and the window holds ticks 3..122
C21_Witness ==
  /\ Len(appended) = 122
  /\ Len(thought_history) = 120
  /\ thought_history[1][1] = 3
  /\ thought_history[120][1] = 122

ReadReturns == \E c \in Callers : pc[c] = "body" /\ pc'[c] = "idle"
Observed == CHOOSE c \in Callers : pc[c] = "body"

\* C22: the history is empty at construction; a read_consciousness_state
\* call that observed a header tick different from last_observed_tick appends
\* exactly that tick; every other step (a poll without a new tick, a poll of
\* an unattached reader, get_consciousness_monitor, an attach that succeeds
\* or fails) leaves the history as it is.
C22_HistoryFrame ==
  /\ thought_history = <<>>
  /\ [][IF ReadReturns
        THEN /\ latest_tick[Observed] # last_observed_tick
             /\ thought_history' =
                  Append(thought_history, <<latest_tick[Observed], now>>)
        ELSE thought_history' = thought_history]_vars

\* C22 witness: one tick was observed, then the monitor was read and a poll
\* found no new tick, and the history still holds the one entry
C22_Witness ==
  /\ Len(thought_history) = 1
  /\ monitor.outcome = "returned"
  /\ monitor.samples = 1
  /\ lastCall.outcome = "same"
  /\ consciousness_start_time = 1

\* C23: consciousness_start_time is set at construction and changes only in
\* a connect_to_consciousness call that leaves the reader attached; no
\* read_consciousness_state call, whatever its outcome, changes it, and a
\* failed attach changes nothing at all.
C23_UptimeOriginFrame ==
  /\ consciousness_start_time = 0
  /\ [][consciousness_start_time' # consciousness_start_time
          => /\ memory_map'.some
             /\ memory_map'.len >= 64
             /\ consciousness_start_time' = now
             /\ UNCHANGED <<pc, lastCall, thought_history, last_observed_tick,
                            monitor>>]_vars

\* C23 witness: a reader attached at time 0 has observed a tick at time 1
\* whose slot lies outside the segment, and its uptime origin is still 0
C23_Witness ==
  /\ memory_map.some
  /\ consciousness_start_time = 0
  /\ now = 1
  /\ Len(thought_history) = 1
  /\ thought_history[1][2] = 1
  /\ lastCall.outcome = "oob"

\* C24: an out-of-bounds poll is transient: when the poll that follows it
\* reads a header tick whose slot lies inside the segment, that poll decodes
\* the record and the poller emits it.
C24_OutOfBoundsIsTransient ==
  [][(/\ pc[Poller] = "body"
      /\ pc'[Poller] = "idle"
      /\ lastCall.outcome = "oob"
      /\ ~OutOfBounds(MemoryOffset(latest_tick[Poller]), memory_map.len))
       => /\ lastCall'.outcome = "record"
          /\ Len(emitted') = Len(emitted) + 1]_vars

\* C25: once a stop is requested the polling loop terminates.
C25_StopTerminatesPoller == stop_requested ~> (pc[Poller] = "done")

\* C26: a TickMonitor on which start_monitoring never succeeded reports
\* monitoring_active = false, total_ticks = 0 and current_tick = None after
\* any sequence of connect, get_state and stop_monitoring calls.
C26_NeverStartedIsIdle ==
  ~tick_monitor.ever_started
    => /\ ~tick_monitor.state.monitoring_active
       /\ tick_monitor.state.total_ticks = 0
       /\ ~tick_monitor.state.current_tick.some

\* C26 witness: a monitor that was connected and stopped but never started
\* has its state read
C26_Witness ==
  /\ ~tick_monitor.ever_started
  /\ tick_monitor.connected
  /\ tick_monitor.should_stop
  /\ tick_monitor.op = "get_state"

ConnectStep ==
  /\ tick_monitor'.op = "connect"
  /\ tick_monitor'.threads = tick_monitor.threads
  /\ tick_monitor'.call = "none"
  /\ tick_monitor' # tick_monitor

\* C27: connect succeeds in every state and is idempotent: after it the
\* monitor is connected with connection_status "Connected", and nothing else
\* of the monitor changes, so a repeated call changes nothing at all.
C27_ConnectIdempotent ==
  /\ [](tick_monitor.op = "connect"
          => /\ tick_monitor.connected
             /\ tick_monitor.state.connection_status = "Connected")
  /\ [][ConnectStep
          => /\ [tick_monitor' EXCEPT !.op = "x", !.connects = 0]
                  = [tick_monitor EXCEPT
                       !.connected = TRUE,
                       !.state.connection_status = "Connected",
                       !.op = "x", !.connects = 0]
             /\ (tick_monitor.connected
                   /\ tick_monitor.state.connection_status = "Connected")
                  => /\ tick_monitor'.state = tick_monitor.state
                     /\ tick_monitor'.connected = tick_monitor.connected]_vars

\* C27 witness: connect was called a second time on a monitor whose thread
\* had already counted a tick
C27_Witness ==
  /\ tick_monitor.op = "connect"
  /\ tick_monitor.connects = 2
  /\ tick_monitor.state.total_ticks > 0
  /\ tick_monitor.state.connection_status = "Connected"

\* C30: after stop_monitoring has returned and until the next
\* start_monitoring, no thread spawned by an earlier start_monitoring is about
\* to write the state or emit tick-update, and monitoring_active is false;
\* for every sequence of calls, two starts without a stop included.
C30_StopEndsEveryThread ==
  tick_monitor.stopped
    => /\ ~tick_monitor.state.monitoring_active
       /\ \A i \in 1 .. MaxStarts :
            tick_monitor.threads[i].pc \notin {"update", "emit"}

\* C28: while no attach has succeeded every poll returns no record, nothing
\* is emitted and the reader's state is untouched (last_observed_tick 0,
\* history empty); events appear only once a segment is attached.
C28_DisconnectedIsInert ==
  ~memory_map.some
    => /\ last_observed_tick = 0
       /\ thought_history = <<>>
       /\ emitted = <<>>
       /\ returned = <<>>
       /\ appended = <<>>
       /\ lastCall.outcome \in {"none", "unattached"}
       /\ \A c \in Callers : pc[c] = "idle"

\* C28 witness: the poller has polled an unattached reader while the
\* producer had already published a tick
C28_Witness ==
  /\ ~memory_map.some
  /\ lastCall.outcome = "unattached"
  /\ header # 0
  /\ mutex = "free"

\* C29: with two or more history samples the tick of the last sample is at
\* least the tick of the first, so the 32-bit difference computed by
\* get_consciousness_monitor neither panics nor wraps.
C29_RateNeverUnderflows ==
  /\ Len(thought_history) > 1
       => thought_history[Len(thought_history)][1] >= thought_history[1][1]
  /\ monitor.outcome # "panic"
  /\ ~monitor.thought_rate_hz.wrapped

\* C31: stop_monitoring always terminates: once it has set the flag and
\* waits for the thread it joins, the thread leaves its loop and the call
\* returns.
C31_StopMonitoringReturns ==
  (tick_monitor.call = "stop")
    ~> (tick_monitor.call = "none" /\ tick_monitor.op = "stop")

\* C31 witness: stop_monitoring has returned after joining a thread that
\* had counted ticks, while get_state calls were possible throughout
C31_Witness ==
  /\ tick_monitor.call = "none"
  /\ tick_monitor.op = "stop"
  /\ tick_monitor.stopped
  /\ \E i \in 1 .. MaxStarts :
       /\ tick_monitor.threads[i].pc = "done"
       /\ tick_monitor.threads[i].tick_counter > 0

\* no stop_monitoring is called or has returned across the step
MonitoringContinues ==
  /\ tick_monitor.ever_started
  /\ ~tick_monitor.stopped /\ ~tick_monitor'.stopped
  /\ tick_monitor.call = "none" /\ tick_monitor'.call = "none"

\* C32: current_tick is Some exactly when total_ticks > 0 and then carries
\* tick_id = total_ticks, and total_ticks never decreases while monitoring
\* continues, for every sequence of start_monitoring and stop_monitoring.
C32_TicksConsistentAndMonotone ==
  /\ [](/\ tick_monitor.state.current_tick.some
             <=> tick_monitor.state.total_ticks > 0
        /\ tick_monitor.state.current_tick.some
             => tick_monitor.state.current_tick.tick_id
                  = tick_monitor.state.total_ticks)
  /\ [][MonitoringContinues
          => tick_monitor'.state.total_ticks
               >= tick_monitor.state.total_ticks]_vars

\* C33: start_monitoring on a monitor that is not connected returns an
\* error, spawns no thread and leaves the monitor as it was; so a monitor on
\* which start_monitoring is called before the first connect, as the setup
\* does, has no thread.
C33_StartNeedsConnect ==
  /\ [](tick_monitor.connects = 0
          => /\ \A i \in 1 .. MaxStarts : tick_monitor.threads[i].pc = "unborn"
             /\ tick_monitor.monitoring_thread = 0
             /\ ~tick_monitor.ever_started)
  /\ [][(StartMonitoring /\ ~tick_monitor.connected)
          => tick_monitor' = [tick_monitor EXCEPT !.op = "start_failed"]]_vars

\* C33 witness: start_monitoring was called on a monitor never connected
C33_Witness ==
  /\ tick_monitor.op = "start_failed"
  /\ ~tick_monitor.connected
  /\ tick_monitor.connects = 0
  /\ tick_monitor.state = DefaultTickMonitorState

\* C34: at most one connect_to_metrics_stream task is active at any time,
\* whatever the interleaving of subscribe_to_metrics calls, the task started
\* at setup and the periods in which websocket_connected is false.
C34_AtMostOneStream == Cardinality(ActiveStreams) <= 1

\* a step in which check_python_process_status or get_process_stats removes
\* the entry
RemovalStep == tracker'.removed # tracker.removed

\* C35: when check_python_process_status or get_process_stats removes the
\* entry of a process it found dead, the entry it removes still maps the
\* script to the PID it had read (or nothing is left to remove), whatever
\* start_python_process and stop_python_process did in between.
C35_RemovesOnlyTheDeadProcess ==
  [][RemovalStep
       => \/ tracker'.removed.entry = tracker'.removed.read
          \/ tracker'.removed.entry = 0]_vars

\* C36: retry_count is the number of connect attempts that failed in a row
\* (a successful connect resets it, a lost connection does not count), and
\* the listener has given up exactly when 10 attempts in a row have failed.
C36_GivesUpAfterTenFailures ==
  /\ listener.retry_count = listener.failed_run
  /\ listener.retry_count <= 10
  /\ listener.pc = "done" <=> listener.failed_run = 10

\* C36 witness: the listener gave up after it had been connected, had
\* received a thought and had lost the connection
C36_Witness ==
  /\ listener.pc = "done"
  /\ listener.failed_run = 10
  /\ listener.connections > 0
  /\ listener.thoughts > 0

\* a connect_to_consciousness call that returned an error
FailedAttach == attempt' # attempt /\ attempt'.result # "Ok"

\* C37: a failed attach leaves the mapping, the uptime origin,
\* last_observed_tick and the history as they were, and a reader that is
\* attached stays attached whatever attaches follow.
C37_FailedAttachChangesNothing ==
  /\ [][FailedAttach
          => /\ memory_map' = memory_map
             /\ consciousness_start_time' = consciousness_start_time
             /\ last_observed_tick' = last_observed_tick
             /\ thought_history' = thought_history]_vars
  /\ [][memory_map.some => memory_map'.some]_vars

\* C37 witness: an attach to a segment without the magic failed on a reader
\* that was attached and had observed a tick, after the clock had moved
C37_Witness ==
  /\ attempt.result = "BadMagic"
  /\ attempt.before.some
  /\ memory_map = attempt.before
  /\ last_observed_tick # 0
  /\ thought_history # <<>>
  /\ now > consciousness_start_time

\* C38: change detection starts from last_observed_tick = 0 and an attach
\* does not reset it: while the header has never been written no record is
\* returned, a change of the mapping leaves last_observed_tick alone, and no
\* call gets past the comparison while the header tick equals
\* last_observed_tick, on whatever segment that tick was observed.
C38_ChangeDetectionSurvivesAttach ==
  /\ [](epoch = 0 => returned = <<>> /\ last_observed_tick = 0)
  /\ [][memory_map' # memory_map
          => last_observed_tick' = last_observed_tick]_vars
  /\ [][\A c \in Callers :
          (pc[c] = "idle" /\ pc'[c] = "body")
            => header # last_observed_tick]_vars

\* C38 witness: the tick in the header was observed when its slot lay beyond
\* the segment, so no record was ever returned; the reader is now attached
\* to a segment that holds the slot, and the poll on it returned nothing
C38_Witness ==
  /\ lastCall.outcome = "same"
  /\ lastCall.len = memory_map.len
  /\ last_observed_tick = header
  /\ ~OutOfBounds(MemoryOffset(header), memory_map.len)
  /\ returned = <<>>
  /\ Len(appended) > 0
  /\ \A c \in Callers : pc[c] = "idle"

\* C39: on the poll path the decoder never fails. A finished call of
\* read_consciousness_state returned no record only because the reader was
\* not attached, the header tick equalled last_observed_tick or the slot lay
\* out of bounds; a call that returned a record handed the decoder a slice of
\* exactly TICK_STATE_SIZE bytes inside the mapping, and a slice of that
\* length gives every heatmap and prediction element and the hash from the
\* segment, none zero-filled or replaced by the placeholder.
C39_PollDecodeNeverFails ==
  /\ lastCall.outcome \in {"none", "unattached", "same", "oob", "record"}
  /\ lastCall.outcome = "record"
       => LET n == lastCall.hi - lastCall.lo
              rec == DecodeConsciousnessArrays(n, MaskToLeBytes({}),
                                               <<"a", "b", "NUL">>)
          IN /\ n = TICK_STATE_SIZE
             /\ lastCall.hi <= lastCall.len
             /\ DecodeConsciousnessState(n, 0).some
             /\ rec.some
             /\ \A i \in 1 .. HEATMAP_SIZE :
                  rec.semantic_heatmap[i] =
                    F32At(HEATMAP_OFFSET + (i - 1) * F32_SIZE)
             /\ \A i \in 1 .. PREDICTION_SIZE :
                  rec.prediction_vector[i] =
                    F32At(PREDICTION_OFFSET + (i - 1) * F32_SIZE)
             /\ rec.hash_from_slice
             /\ rec.tensor_hash = <<"a", "b">>

\* C39 witness: an attached reader found a new tick whose slot lies inside
\* the mapping, decoded the slot and returned the record
C39_Witness ==
  /\ lastCall.outcome = "record"
  /\ lastCall.hi - lastCall.lo = TICK_STATE_SIZE
  /\ memory_map.some
  /\ returned # <<>>

====
